---- MODULE Spec2Model ----
(***************************************************************************)
(* Model of src/main.py: the GitHub organization analyzer.                 *)
(*                                                                         *)
(* The process is main() -> GithubAnalyzer() -> run_analysis(), a single   *)
(* thread of control.  Each action below is one step of that thread        *)
(* together with the exception propagation it can trigger (the handlers    *)
(* of run_analysis and main run in the same step as the raise).            *)
(*                                                                         *)
(* Representation choices:                                                 *)
(*   - Optional[str] is a string, with None the distinguished value None;  *)
(*     the empty string "" is a different, also falsy, value.              *)
(*   - a repository name is the tuple of its code points, so that Python's *)
(*     str ordering (used by sorted(key=name)) is lexicographic order;     *)
(*   - a datetime is [date, time]; instants compare lexicographically and  *)
(*     strftime('%Y-%m-%d') keeps the date only;                           *)
(*   - a Counter is the sequence of [key, count] in first-insertion order  *)
(*     (a Python dict), most_common() is a stable sort by descending count.*)
(***************************************************************************)
EXTENDS Integers, Sequences, FiniteSets

VARIABLES
    pc,            \* position of the single thread of control
    token,         \* self.token
    org_name,      \* self.org_name
    github,        \* the client: "absent", "open" or "closed"
    output_dir,    \* TRUE once self.output_dir exists
    repos,         \* the list returned by org.get_repos()
    analyses,      \* the list built by the loop of run_analysis
    stats,         \* result of calculate_org_stats, or NoStats
    report,        \* result of generate_markdown_report, or NoReport
    files,         \* files of output_dir, [report, complete]: complete when
                   \* the whole text of report was written, else a file
                   \* that write_text created and left empty or truncated
    printed,       \* lines printed on standard output, in order
    raised,        \* the exception that ended the run ("none" if none)
    raised_in,     \* the call that raised it
    interrupted,   \* the calls in which a user interrupt arrived, in order
    failed,        \* contributor listings that raised and were recovered:
                   \* [repo |-> index in repos, exc |-> what was raised]
    exit_status    \* process exit status, -1 while running

vars == <<pc, token, org_name, github, output_dir, repos, analyses, stats,
          report, files, printed, raised, raised_in, interrupted, failed,
          exit_status>>

-----------------------------------------------------------------------------
(* Bounds *)

MaxRepos == 3

(* Program constants *)

TopTopics == 10

-----------------------------------------------------------------------------
(* Values *)

None == "None"

Truthy(s) == s # None /\ s # ""

Or(s, default) == IF Truthy(s) THEN s ELSE default

Min(a, b) == IF a < b THEN a ELSE b

\* Python's str "<" : lexicographic on code points, a proper prefix is smaller
RECURSIVE StrLess(_, _)
StrLess(a, b) ==
    IF b = <<>> THEN FALSE
    ELSE IF a = <<>> THEN TRUE
    ELSE IF Head(a) # Head(b) THEN Head(a) < Head(b)
    ELSE StrLess(Tail(a), Tail(b))

\* datetime "<"
DateTimeLess(a, b) ==
    \/ a.date < b.date
    \/ a.date = b.date /\ a.time < b.time

\* strftime('%Y-%m-%d')
strftime_date(dt) == dt.date

\* round(num/den) to the nearest integer, ties to even: the rounding of the
\* format specs ':.2f' and ':.1f'
RoundHalfEven(num, den) ==
    LET q == num \div den
        r == num % den
    IN  IF 2 * r > den \/ (2 * r = den /\ q % 2 = 1) THEN q + 1 ELSE q

\* f"{size_kb/1024:.2f}" in hundredths of a MB
SizeMB(size_kb) == RoundHalfEven(size_kb * 100, 1024)

(* Python floats are IEEE 754 doubles.  A positive double is [l1, l2, l3,  *)
(* e]: its 53-bit significand m = l1 * 2^36 + l2 * 2^18 + l3 cut in limbs   *)
(* of 17, 18 and 18 bits (2^16 <= l1 < 2^17), its value m * 2^(e - 52).     *)
(* Every operation rounds its exact result to the nearest double, ties to   *)
(* even.  Limbs keep every intermediate value below 2^31.                   *)

\* the next double
FloatSucc(x) ==
    IF x.l3 + 1 < 2^18 THEN [x EXCEPT !.l3 = @ + 1]
    ELSE IF x.l2 + 1 < 2^18 THEN [x EXCEPT !.l3 = 0, !.l2 = @ + 1]
    ELSE IF x.l1 + 1 < 2^17 THEN [x EXCEPT !.l3 = 0, !.l2 = 0, !.l1 = @ + 1]
    ELSE [l1 |-> 2^16, l2 |-> 0, l3 |-> 0, e |-> x.e + 1]

\* the smallest s with c * 2^s >= t, for 0 < c <= t
RECURSIVE FloatShift(_, _)
FloatShift(c, t) == IF c >= t THEN 0 ELSE 1 + FloatShift(2 * c, t)

\* the next b bits of the quotient by t, and the remainder, for r < t < 2^22
DivStep(r, t, b) == [d |-> (r * 2^b) \div t, r |-> (r * 2^b) % t]

\* the float c / t, for integers 0 < c <= t < 2^22: long division, 53 bits,
\* then the bit and the remainder that decide the rounding
FloatDiv(c, t) ==
    LET s == FloatShift(c, t)
        a1 == DivStep(c * 2^s - t, t, 8)
        a2 == DivStep(a1.r, t, 8)
        a3 == DivStep(a2.r, t, 9)
        a4 == DivStep(a3.r, t, 9)
        a5 == DivStep(a4.r, t, 9)
        a6 == DivStep(a5.r, t, 9)
        a7 == DivStep(a6.r, t, 1)
        x == [l1 |-> (2^8 + a1.d) * 2^8 + a2.d,
              l2 |-> a3.d * 2^9 + a4.d,
              l3 |-> a5.d * 2^9 + a6.d,
              e |-> 0 - s]
    IN  IF a7.d = 1 /\ (a7.r # 0 \/ x.l3 % 2 = 1) THEN FloatSucc(x) ELSE x

\* the exact product of the significand of x by k, 0 < k < 2^12, in limbs:
\* [p1, d2, d3] is p1 * 2^36 + d2 * 2^18 + d3
MulLimbs(x, k) ==
    LET p3 == x.l3 * k
        p2 == x.l2 * k + p3 \div 2^18
    IN  [p1 |-> x.l1 * k + p2 \div 2^18, d2 |-> p2 % 2^18, d3 |-> p3 % 2^18]

\* the float x * k, for a double x and an integer 0 < k < 2^12
FloatMul(x, k) ==
    LET p == MulLimbs(x, k)
        n == CHOOSE n \in 0..12 : 2^(16 + n) <= p.p1 /\ p.p1 < 2^(17 + n)
        dropped == p.d3 % 2^n
        y == [l1 |-> p.p1 \div 2^n,
              l2 |-> p.d2 \div 2^n + (p.p1 % 2^n) * 2^(18 - n),
              l3 |-> p.d3 \div 2^n + (p.d2 % 2^n) * 2^(18 - n),
              e |-> x.e + n]
    IN  IF n > 0 /\ (2 * dropped > 2^n \/ (2 * dropped = 2^n /\ y.l3 % 2 = 1))
        THEN FloatSucc(y) ELSE y

\* f"{x:.1f}" in tenths, for a double 0 < x < 2^16: the exact value of x
\* times ten, rounded to the nearest integer, ties to even
FloatTenths(x) ==
    LET p == MulLimbs(x, 10)
        g == 16 - x.e
    IN  IF g > 24 THEN 0
        ELSE LET int == p.p1 \div 2^g
                 frac == p.p1 % 2^g
                 rest == p.d2 # 0 \/ p.d3 # 0
             IN  IF \/ 2 * frac > 2^g
                    \/ 2 * frac = 2^g /\ (rest \/ int % 2 = 1)
                 THEN int + 1 ELSE int

\* f"{(count / total_repos) * 100:.1f}" in tenths of a percent, for
\* 0 < count <= total_repos
Percentage(count, total_repos) ==
    FloatTenths(FloatMul(FloatDiv(count, total_repos), 100))

-----------------------------------------------------------------------------
(* The organization's repositories as the API can return them.  A raw       *)
(* repository carries what the PyGithub Repository object exposes; license  *)
(* is <<>> when the repository has none, <<[name |-> ...]>> otherwise;      *)
(* contributors and branches are the lengths of the listings.               *)

Raw(n, d, l, c, u, sz, st, fk, oi, w, v, ar, tp, li, br, co) ==
    [name |-> n, description |-> d, language |-> l,
     created_at |-> c, updated_at |-> u, size |-> sz,
     stargazers_count |-> st, forks_count |-> fk,
     open_issues_count |-> oi, has_wiki |-> w,
     visibility |-> v, archived |-> ar, topics |-> tp,
     default_branch |-> "main", license |-> li, branches |-> br,
     contributors |-> co, html_url |-> <<"https://github.com", n>>]

DT(d, t) == [date |-> d, time |-> t]

Lic(n) == <<[name |-> n]>>

\* names: "Zeta" "ap" "api" "web" "B" "api-old" "a" "docs"
RawRepos ==
    { Raw(<<90, 101, 116, 97>>, "z", "Go", DT(1, 0), DT(5, 10), 2048, 5, 1, 2,
          TRUE, "public", FALSE, <<"cli", "go">>, Lic("MIT"), 3, 4),
      Raw(<<97, 112>>, None, "Go", DT(1, 5), DT(5, 20), 128, 2, 0, 0,
          FALSE, "private", TRUE, <<"cli">>, <<>>, 1, 2),
      Raw(<<97, 112, 105>>, "", "Python", DT(2, 0), DT(4, 0), 1536, 0, 3, 1,
          TRUE, "public", FALSE, <<>>, Lic("Apache"), 2, 0),
      Raw(<<119, 101, 98>>, "w", None, DT(2, 1), DT(5, 20), 0, 1, 1, 0,
          TRUE, "internal", TRUE, <<"web", "cli">>, Lic("MIT"), 1, 1),
      Raw(<<66>>, "b", "Go", DT(3, 0), DT(6, 0), 1029, 7, 2, 5,
          FALSE, "public", FALSE, <<"web">>, Lic(""), 4, 3),
      Raw(<<97, 112, 105, 45, 111, 108, 100>>, "old", "Python", DT(1, 1),
          DT(5, 7), 384, 3, 0, 0, FALSE, "public", TRUE, <<>>, <<>>, 1, 5),
      Raw(<<97>>, None, "Rust", DT(4, 0), DT(4, 0), 5, 0, 0, 9,
          TRUE, "private", FALSE, <<"go", "rust">>, Lic("MIT"), 2, 1),
      Raw(<<100, 111, 99, 115>>, "d", "", DT(2, 2), DT(6, 1), 77, 4, 4, 4,
          TRUE, "public", TRUE, <<"docs">>, Lic("Apache"), 1, 0) }

\* get_repos() lists each repository of the organization once, in any order
RECURSIVE ListsOf(_)
ListsOf(n) ==
    IF n = 0 THEN {<<>>}
    ELSE LET shorter == ListsOf(n - 1)
         IN  shorter \cup
             { Append(l, r) : l \in { s \in shorter : Len(s) = n - 1 },
                              r \in RawRepos }

Distinct(l) == \A i, j \in 1..Len(l) : l[i].name = l[j].name => i = j

RepoLists == { l \in ListsOf(MaxRepos) : Distinct(l) }

-----------------------------------------------------------------------------
(* analyze_repository *)

\* no handler: a failing listing propagates
contributors_except_none(exc) == FALSE

\* a bare "except:" also catches KeyboardInterrupt
contributors_except_bare(exc) == TRUE

\* lines 136-139: the handler of the contributor listing catches Exception,
\* which KeyboardInterrupt is not
contributors_except(exc) == exc = "Exception"

\* lines 136-139: the count when the listing succeeds, 0 when it fails
contributors_count_of(repo, listing_ok) ==
    IF listing_ok THEN repo.contributors ELSE 0

\* lines 141-160
analyze_repository(repo, listing_ok) ==
    [name |-> repo.name,
     description |-> repo.description,
     language |-> repo.language,
     created_at |-> repo.created_at,
     updated_at |-> repo.updated_at,
     size_kb |-> repo.size,
     stars |-> repo.stargazers_count,
     forks |-> repo.forks_count,
     open_issues |-> repo.open_issues_count,
     has_wiki |-> repo.has_wiki,
     visibility |-> repo.visibility,
     archived |-> repo.archived,
     topics |-> repo.topics,
     default_branch |-> repo.default_branch,
     license |-> IF repo.license # <<>> THEN repo.license[1].name ELSE None,
     branch_count |-> repo.branches,
     contributors_count |-> contributors_count_of(repo, listing_ok),
     url |-> repo.html_url]

-----------------------------------------------------------------------------
(* Counter *)

Keys(c) == { c[i].key : i \in 1..Len(c) }

Get(c, k) == IF \E i \in 1..Len(c) : c[i].key = k
             THEN (CHOOSE e \in { c[i] : i \in 1..Len(c) } : e.key = k).count
             ELSE 0

\* counter[k] += 1
Incr(c, k) ==
    IF k \in Keys(c)
    THEN [i \in 1..Len(c) |->
             IF c[i].key = k THEN [key |-> k, count |-> c[i].count + 1]
             ELSE c[i]]
    ELSE Append(c, [key |-> k, count |-> 1])

RECURSIVE IncrAll(_, _)
IncrAll(c, ks) ==
    IF ks = <<>> THEN c ELSE IncrAll(Incr(c, Head(ks)), Tail(ks))

\* insert e after every element whose count is >= e.count: stable, descending
RECURSIVE InsertByCount(_, _)
InsertByCount(sorted, e) ==
    IF sorted = <<>> THEN <<e>>
    ELSE IF Head(sorted).count >= e.count
         THEN <<Head(sorted)>> \o InsertByCount(Tail(sorted), e)
         ELSE <<e>> \o sorted

RECURSIVE most_common(_)
most_common(c) ==
    IF c = <<>> THEN <<>>
    ELSE InsertByCount(most_common(SubSeq(c, 1, Len(c) - 1)), c[Len(c)])

most_common_n(c, n) == SubSeq(most_common(c), 1, Min(n, Len(c)))

\* sum(counter.values())
RECURSIVE Total(_)
Total(c) == IF c = <<>> THEN 0 ELSE Head(c).count + Total(Tail(c))

-----------------------------------------------------------------------------
(* calculate_org_stats *)

\* lines 187-193
EmptyAcc ==
    [languages |-> <<>>, topics |-> <<>>, licenses |-> <<>>,
     total_contributors |-> 0, total_forks |-> 0, total_stars |-> 0,
     total_size |-> 0]

\* "total_stars = analysis.stars" instead of "+="
LoopBody_assign(acc, analysis) ==
    [languages |-> IF Truthy(analysis.language)
                   THEN Incr(acc.languages, analysis.language)
                   ELSE acc.languages,
     topics |-> IncrAll(acc.topics, analysis.topics),
     licenses |-> IF Truthy(analysis.license)
                  THEN Incr(acc.licenses, analysis.license)
                  ELSE acc.licenses,
     total_contributors |-> acc.total_contributors + analysis.contributors_count,
     total_forks |-> acc.total_forks + analysis.forks,
     total_stars |-> analysis.stars,
     total_size |-> acc.total_size + analysis.size_kb]

\* the license counted without the "if analysis.license" guard
LoopBody_unguarded(acc, analysis) ==
    [languages |-> IF Truthy(analysis.language)
                   THEN Incr(acc.languages, analysis.language)
                   ELSE acc.languages,
     topics |-> IncrAll(acc.topics, analysis.topics),
     licenses |-> Incr(acc.licenses, analysis.license),
     total_contributors |-> acc.total_contributors + analysis.contributors_count,
     total_forks |-> acc.total_forks + analysis.forks,
     total_stars |-> acc.total_stars + analysis.stars,
     total_size |-> acc.total_size + analysis.size_kb]

\* lines 196-206: the body of the loop
LoopBody(acc, analysis) ==
    [languages |-> IF Truthy(analysis.language)
                   THEN Incr(acc.languages, analysis.language)
                   ELSE acc.languages,
     topics |-> IncrAll(acc.topics, analysis.topics),
     licenses |-> IF Truthy(analysis.license)
                  THEN Incr(acc.licenses, analysis.license)
                  ELSE acc.licenses,
     total_contributors |-> acc.total_contributors + analysis.contributors_count,
     total_forks |-> acc.total_forks + analysis.forks,
     total_stars |-> acc.total_stars + analysis.stars,
     total_size |-> acc.total_size + analysis.size_kb]

\* line 195: the loop, in list order
RECURSIVE Loop(_, _)
Loop(acc, as) ==
    IF as = <<>> THEN acc ELSE Loop(LoopBody(acc, Head(as)), Tail(as))

\* total_repos counting the active repositories only
total_repos_of_active(as) == Cardinality({ i \in 1..Len(as) : ~as[i].archived })

\* line 209
total_repos_of(as) == Len(as)

\* line 210
active_repos_of(as) == Cardinality({ i \in 1..Len(as) : ~as[i].archived })

\* line 210 copied to line 211 without dropping the "not"
archived_repos_of_copy(as) == Cardinality({ i \in 1..Len(as) : ~as[i].archived })

\* line 211
archived_repos_of(as) == Cardinality({ i \in 1..Len(as) : as[i].archived })

calculate_org_stats(as) ==
    LET acc == Loop(EmptyAcc, as)
    IN  [total_repos |-> total_repos_of(as),
         active_repos |-> active_repos_of(as),
         archived_repos |-> archived_repos_of(as),
         total_size_kb |-> acc.total_size,
         languages |-> acc.languages,
         topics |-> acc.topics,
         contributors |-> acc.total_contributors,
         forks |-> acc.total_forks,
         stars |-> acc.total_stars,
         licenses |-> acc.licenses]

-----------------------------------------------------------------------------
(* generate_markdown_report *)

\* sorted(analyses, key=lambda x: x.name, reverse=False): stable, ascending
RECURSIVE InsertByName(_, _)
InsertByName(sorted, a) ==
    IF sorted = <<>> THEN <<a>>
    ELSE IF StrLess(a.name, Head(sorted).name)
         THEN <<a>> \o sorted
         ELSE <<Head(sorted)>> \o InsertByName(Tail(sorted), a)

RECURSIVE sorted_by_name(_)
sorted_by_name(as) ==
    IF as = <<>> THEN <<>>
    ELSE InsertByName(sorted_by_name(SubSeq(as, 1, Len(as) - 1)), as[Len(as)])

\* reverse=False: ascending
RECURSIVE InsertByUpdated_ascending(_, _)
InsertByUpdated_ascending(sorted, a) ==
    IF sorted = <<>> THEN <<a>>
    ELSE IF DateTimeLess(a.updated_at, Head(sorted).updated_at)
         THEN <<a>> \o sorted
         ELSE <<Head(sorted)>> \o InsertByUpdated_ascending(Tail(sorted), a)

\* sorted(analyses, key=lambda x: x.updated_at, reverse=True): stable,
\* descending; equal instants keep their order in the list
RECURSIVE InsertByUpdated(_, _)
InsertByUpdated(sorted, a) ==
    IF sorted = <<>> THEN <<a>>
    ELSE IF DateTimeLess(Head(sorted).updated_at, a.updated_at)
         THEN <<a>> \o sorted
         ELSE <<Head(sorted)>> \o InsertByUpdated(Tail(sorted), a)

RECURSIVE sorted_by_updated_at(_)
sorted_by_updated_at(as) ==
    IF as = <<>> THEN <<>>
    ELSE InsertByUpdated(sorted_by_updated_at(SubSeq(as, 1, Len(as) - 1)),
                         as[Len(as)])

\* lines 272-273 and 297-298: the elements the loop does not skip
RECURSIVE Keep(_, _)
Keep(as, archived) ==
    IF as = <<>> THEN <<>>
    ELSE IF Head(as).archived = archived
         THEN <<Head(as)>> \o Keep(Tail(as), archived)
         ELSE Keep(Tail(as), archived)

\* lines 242-249
Overview(st) ==
    [total_repos |-> st.total_repos,
     active_repos |-> st.active_repos,
     archived_repos |-> st.archived_repos,
     total_size_mb |-> SizeMB(st.total_size_kb),
     contributors |-> st.contributors,
     stars |-> st.stars,
     forks |-> st.forks]

\* lines 253-255: one division by stats.total_repos per language
LanguageLines(st) ==
    LET mc == most_common(st.languages)
    IN  [i \in 1..Len(mc) |->
            [lang |-> mc[i].key, count |-> mc[i].count,
             percentage |-> Percentage(mc[i].count, st.total_repos)]]

\* line 254 raises ZeroDivisionError when it divides by a zero total_repos
ZeroDivision(st) == st.languages # <<>> /\ st.total_repos = 0

\* lines 258-261; <<>> when the section is omitted
TopicLines(st) == most_common_n(st.topics, TopTopics)

\* lines 264-267; <<>> when the section is omitted
LicenseLines(st) == most_common(st.licenses)

\* lines 275-291
ActiveSubsection(a) ==
    [name |-> a.name, url |-> a.url,
     description |-> Or(a.description, "N/A"),
     language |-> Or(a.language, "N/A"),
     topics |-> a.topics,
     stars |-> a.stars, forks |-> a.forks,
     contributors |-> a.contributors_count,
     open_issues |-> a.open_issues,
     size_mb |-> SizeMB(a.size_kb),
     branches |-> a.branch_count,
     license |-> Or(a.license, "N/A"),
     created |-> strftime_date(a.created_at),
     updated |-> strftime_date(a.updated_at)]

\* lines 299-304; description "" when the line is left out
ArchivedSubsection(a) ==
    [name |-> a.name, url |-> a.url,
     language |-> Or(a.language, "N/A"),
     updated |-> strftime_date(a.updated_at),
     description |-> Or(a.description, "")]

\* lines 269-291
ActiveSection(as) ==
    LET kept == Keep(sorted_by_name(as), FALSE)
    IN  [i \in 1..Len(kept) |-> ActiveSubsection(kept[i])]

\* line 294
HasArchivedSection(st) == st.archived_repos > 0

\* lines 293-304
ArchivedSection(as, st) ==
    IF HasArchivedSection(st)
    THEN LET kept == Keep(sorted_by_updated_at(as), TRUE)
         IN  [i \in 1..Len(kept) |-> ArchivedSubsection(kept[i])]
    ELSE <<>>

\* The report without its trailing generation timestamp
generate_markdown_report(org, as, st) ==
    [title |-> org,
     overview |-> Overview(st),
     languages |-> LanguageLines(st),
     topics |-> TopicLines(st),
     licenses |-> LicenseLines(st),
     active |-> ActiveSection(as),
     has_archived |-> HasArchivedSection(st),
     archived |-> ArchivedSection(as, st)]

-----------------------------------------------------------------------------
(* Exception handlers *)

Exceptions == {"Exception", "KeyboardInterrupt"}

Outcomes == {"ok"} \cup Exceptions

\* line 376: except Exception
run_analysis_except(exc) == exc = "Exception"

\* lines 388-393: the line main prints for an exception that reaches it
main_except(exc) ==
    IF exc = "KeyboardInterrupt"
    THEN <<"warning", "Analysis interrupted by user">>
    ELSE <<"error", "Fatal error">>

\* line 377
ErrorDuringAnalysis == <<"error", "Error during analysis">>

NoStats == [absent |-> TRUE]

NoReport == [absent |-> TRUE]

-----------------------------------------------------------------------------
(* The process *)
(*                                                                         *)
(* A user interrupt (KeyboardInterrupt) can arrive at any call the process *)
(* makes: a print, a call of the client, the sleep, the aggregation, the   *)
(* rendering, the write, the print of a handler, the close() of the        *)
(* finally, and more than once.  An interrupted print has printed nothing. *)
(* Only the try of main catches it (line 388): one that arrives in a       *)
(* handler of main (lines 389-393) is caught by nobody.                    *)

Init ==
    /\ pc = "main"
    /\ token = None
    /\ org_name = None
    /\ github = "absent"
    /\ output_dir = FALSE
    /\ repos = <<>>
    /\ analyses = <<>>
    /\ stats = NoStats
    /\ report = NoReport
    /\ files = <<>>
    /\ printed = <<>>
    /\ raised = "none"
    /\ raised_in = "none"
    /\ interrupted = <<>>
    /\ failed = {}
    /\ exit_status = -1

\* line 397: main() is the last statement of the script, and an interrupt
\* that leaves it is handled by nobody; the interpreter then ends the
\* process by SIGINT, which its parent reads as status 128 + 2
UnhandledInterrupt == 130

\* How the process can end: what it has printed, the client, the exit
\* status, and the calls in which interrupts arrived, in order
Ending(out, g, status, ints) ==
    [printed |-> out, github |-> g, exit_status |-> status,
     interrupted |-> ints]

\* lines 388-393, entered with exc, `out` printed so far and the client g:
\* the handler prints its line and exits with status 1, or an interrupt
\* arrives in its print (nothing printed) or between the print and the end
\* of sys.exit(1), and leaves main
main_handler(exc, out, g, ints) ==
    { Ending(out \o <<main_except(exc)>>, g, 1, ints),
      Ending(out, g, UnhandledInterrupt, Append(ints, "main_print")),
      Ending(out \o <<main_except(exc)>>, g, UnhandledInterrupt,
             Append(ints, "sys_exit")) }

\* line 379 and what follows it, with exc leaving the try statement of
\* run_analysis ("none" if none): close() returns, and then run_analysis
\* and main return (status 0) or exc reaches main; or an interrupt arrives
\* in close(), which may or may not have closed the client, and reaches main
Finally(exc, out, ints) ==
    (IF exc = "none"
     THEN {Ending(out, "closed", 0, ints)}
     ELSE main_handler(exc, out, "closed", ints))
    \cup UNION { main_handler("KeyboardInterrupt", out, g,
                              Append(ints, "close")) :
                 g \in {"open", "closed"} }

\* the handler of line 376 logs and re-raises: main logs a second time
run_analysis_handler_reraise(exc, out, ints) ==
    IF run_analysis_except(exc)
    THEN Finally(exc, out \o <<ErrorDuringAnalysis>>, ints)
    ELSE Finally(exc, out, ints)

\* lines 376-379, with exc leaving the try body of run_analysis: an
\* Exception is caught and line 377 prints, unless an interrupt arrives in
\* that print; the interrupt is not caught here
run_analysis_handler(exc, out, ints) ==
    IF run_analysis_except(exc)
    THEN Finally("none", out \o <<ErrorDuringAnalysis>>, ints)
         \cup Finally("KeyboardInterrupt", out, Append(ints, "error_print"))
    ELSE Finally(exc, out, ints)

\* the calls in which interrupts arrived, with exc raised in `where`
Interrupts(exc, where) ==
    IF exc = "KeyboardInterrupt" THEN Append(interrupted, where)
    ELSE interrupted

\* the process ends
Exit(end) ==
    /\ printed' = end.printed
    /\ github' = end.github
    /\ exit_status' = end.exit_status
    /\ interrupted' = end.interrupted
    /\ pc' = "exited"

\* An exception leaves the try body of run_analysis: lines 376-379, then
\* lines 388-393 if it reaches main.  lines is what the step printed before.
RaiseInRun(exc, where, lines) ==
    /\ raised' = exc
    /\ raised_in' = where
    /\ \E end \in run_analysis_handler(exc, printed \o lines,
                                       Interrupts(exc, where)) : Exit(end)

\* An exception leaves GithubAnalyzer() or the print of line 385, with the
\* client g: lines 388-393
RaiseInInit(exc, where, lines, g) ==
    /\ raised' = exc
    /\ raised_in' = where
    /\ \E end \in main_handler(exc, printed \o lines, g,
                               Interrupts(exc, where)) : Exit(end)

Tokens == {None, "", "ghp_token"}

Orgs == {None, "", "acme"}

\* main, lines 384-386, and GithubAnalyzer.__init__, lines 106-117.  An
\* interrupt in lines 108-113 arrives with self.token and self.org_name as
\* assigned so far: each is the value of its variable (None when unset) or
\* still None; an interrupt in mkdir arrives before or after the directory
\* is made
Construct ==
    /\ pc = "main"
    /\ LET banner == <<<<"info", "GitHub Organization Analyzer">>>>
       IN  \/ /\ RaiseInInit("KeyboardInterrupt", "print", <<>>, github)
              /\ UNCHANGED <<token, org_name, output_dir>>
           \/ /\ RaiseInInit("KeyboardInterrupt", "load_dotenv", banner, github)
              /\ UNCHANGED <<token, org_name, output_dir>>
           \/ \E t \in Tokens, o \in Orgs :
                /\ token' = t
                /\ org_name' = o
                /\ \/ /\ RaiseInInit("KeyboardInterrupt", "getenv", banner,
                                       github)
                      /\ UNCHANGED output_dir
                   \/ IF ~Truthy(t) \/ ~Truthy(o)
                      THEN /\ RaiseInInit("Exception", "config", banner, github)
                           /\ UNCHANGED output_dir
                      ELSE \/ /\ RaiseInInit("KeyboardInterrupt", "Github", banner,
                                             github)
                              /\ UNCHANGED output_dir
                           \/ \E mkdir \in Outcomes, made \in BOOLEAN :
                                IF mkdir = "ok"
                                THEN /\ made
                                     /\ github' = "open"
                                     /\ output_dir' = TRUE
                                     /\ printed' = printed \o banner
                                     /\ pc' = "run"
                                     /\ UNCHANGED <<raised, raised_in,
                                                    interrupted, exit_status>>
                                ELSE /\ made => mkdir = "KeyboardInterrupt"
                                     /\ RaiseInInit(mkdir, "mkdir", banner, "open")
                                     /\ output_dir' = made
    /\ UNCHANGED <<repos, analyses, stats, report, files, failed>>

\* run_analysis, lines 332-341
FetchRepositories ==
    /\ pc = "run"
    /\ LET lines == << <<"info", "Starting analysis">>,
                       <<"info", "Fetching repositories">> >>
       IN  \/ \E n \in 0..(Len(lines) - 1) :
                /\ RaiseInRun("KeyboardInterrupt", "print", SubSeq(lines, 1, n))
                /\ UNCHANGED repos
           \/ \E exc \in Exceptions :
                /\ RaiseInRun(exc, "get_repos", lines)
                /\ UNCHANGED repos
           \/ \E l \in RepoLists :
                LET found == lines \o <<<<"info", "Found", Len(l)>>>>
                IN  /\ repos' = l
                    /\ \/ /\ printed' = printed \o found
                          /\ pc' = "analyze"
                          /\ UNCHANGED <<github, raised, raised_in,
                                         interrupted, exit_status>>
                       \/ RaiseInRun("KeyboardInterrupt", "print", lines)
                       \/ RaiseInRun("KeyboardInterrupt", "sleep", found)
    /\ UNCHANGED <<token, org_name, output_dir, analyses, stats, report, files,
                   failed>>

Faults == {"none", "get_topics", "license", "get_branches"}

\* run_analysis, lines 347-349, with the call of analyze_repository
AnalyzeRepository ==
    /\ pc = "analyze"
    /\ Len(analyses) < Len(repos)
    /\ LET i == Len(analyses) + 1
       IN  \E listing \in Outcomes, fault \in Faults, exc \in Exceptions :
             IF listing # "ok" /\ ~contributors_except(listing)
             THEN /\ RaiseInRun(listing, "get_contributors", <<>>)
                  /\ UNCHANGED <<analyses, failed>>
             ELSE IF fault # "none"
             THEN /\ RaiseInRun(exc, fault, <<>>)
                  /\ UNCHANGED <<analyses, failed>>
             ELSE /\ analyses' = Append(analyses,
                                   analyze_repository(repos[i], listing = "ok"))
                  /\ failed' = IF listing = "ok" THEN failed
                               ELSE failed \cup {[repo |-> i, exc |-> listing]}
                  /\ UNCHANGED <<pc, github, printed, raised, raised_in,
                                 interrupted, exit_status>>
    /\ UNCHANGED <<token, org_name, output_dir, repos, stats, report, files>>

\* run_analysis, lines 351-352
CalculateStats ==
    /\ pc = "analyze"
    /\ Len(analyses) = Len(repos)
    /\ LET lines == <<<<"info", "Calculating organization statistics">>>>
       IN  \/ /\ stats' = calculate_org_stats(analyses)
              /\ printed' = printed \o lines
              /\ pc' = "render"
              /\ UNCHANGED <<github, raised, raised_in, interrupted,
                             exit_status>>
           \/ /\ RaiseInRun("KeyboardInterrupt", "print", <<>>)
              /\ UNCHANGED stats
           \/ /\ RaiseInRun("KeyboardInterrupt", "calculate_org_stats", lines)
              /\ UNCHANGED stats
    /\ UNCHANGED <<token, org_name, output_dir, repos, analyses, report, files,
                   failed>>

\* run_analysis, lines 354-355
GenerateReport ==
    /\ pc = "render"
    /\ LET lines == <<<<"info", "Generating report">>>>
       IN  \/ IF ZeroDivision(stats)
              THEN /\ RaiseInRun("Exception", "ZeroDivisionError", lines)
                   /\ UNCHANGED report
              ELSE /\ report' = generate_markdown_report(org_name, analyses,
                                                         stats)
                   /\ printed' = printed \o lines
                   /\ pc' = "write"
                   /\ UNCHANGED <<github, raised, raised_in, interrupted,
                                  exit_status>>
           \/ /\ RaiseInRun("KeyboardInterrupt", "print", <<>>)
              /\ UNCHANGED report
           \/ /\ RaiseInRun("KeyboardInterrupt", "generate_markdown_report",
                            lines)
              /\ UNCHANGED report
    /\ UNCHANGED <<token, org_name, output_dir, repos, analyses, stats, files,
                   failed>>

\* line 362: write_text opens (creates) the file, encodes and writes the
\* text, and closes the file
File(text, complete) == [report |-> text, complete |-> complete]

\* run_analysis, lines 357-363; write_text can raise before it has created
\* the file or after, and then leaves a file without the whole text; an
\* interrupt can also arrive when the whole text is written
WriteReport ==
    /\ pc = "write"
    /\ \E outcome \in Outcomes, created \in BOOLEAN, whole \in BOOLEAN :
          IF outcome = "ok"
          THEN /\ created /\ whole
               /\ files' = Append(files, File(report, TRUE))
               /\ pc' = "summary"
               /\ UNCHANGED <<github, printed, raised, raised_in, interrupted,
                              exit_status>>
          ELSE /\ whole => created /\ outcome = "KeyboardInterrupt"
               /\ RaiseInRun(outcome, "write_text", <<>>)
               /\ files' = IF created THEN Append(files, File(report, whole))
                            ELSE files
    /\ UNCHANGED <<token, org_name, output_dir, repos, analyses, stats, report,
                   failed>>

\* lines 365-374
SummaryLines(st) ==
    << <<"info", "Analysis complete">>,
       <<"info", "Quick Summary">>,
       <<"info", "Total Repositories", st.total_repos>>,
       <<"info", "Active Repositories", st.active_repos>>,
       <<"info", "Total Contributors", st.contributors>> >>
    \o IF st.languages # <<>>
       THEN <<<<"info", "Most Used Language", most_common(st.languages)[1].key>>>>
       ELSE <<>>

\* run_analysis, lines 365-379, and the return of main
PrintSummary ==
    /\ pc = "summary"
    /\ \/ /\ \E end \in Finally("none", printed \o SummaryLines(stats),
                                  interrupted) : Exit(end)
          /\ UNCHANGED <<raised, raised_in>>
       \/ \E n \in 0..(Len(SummaryLines(stats)) - 1) :
             RaiseInRun("KeyboardInterrupt", "print",
                        SubSeq(SummaryLines(stats), 1, n))
    /\ UNCHANGED <<token, org_name, output_dir, repos, analyses, stats, report,
                   files, failed>>

Next ==
    \/ Construct
    \/ FetchRepositories
    \/ AnalyzeRepository
    \/ CalculateStats
    \/ GenerateReport
    \/ WriteReport
    \/ PrintSummary

Spec == Init /\ [][Next]_vars

-----------------------------------------------------------------------------
(* Properties *)

ErrorLines(ls) == { i \in 1..Len(ls) : ls[i][1] = "error" }

ApiCalls == {"get_repos", "get_topics", "license", "get_branches"}

Range(seq) == { seq[i] : i \in 1..Len(seq) }

\* C1, as claimed: when repository listing, or topic listing, license access
\* or branch listing of any repository raises an error, the run ends without
\* any report file written and with exactly one error message printed.
C1_ApiErrorAbortsRun ==
    (raised = "Exception" /\ raised_in \in ApiCalls) =>
        /\ pc = "exited"
        /\ files = <<>>
        /\ report = NoReport
        /\ Cardinality(ErrorLines(printed)) = 1

\* C1, amended: when repository listing, or topic listing, license access or
\* branch listing of any repository raises an error, the run ends without
\* any report rendered or file written, and the only error message printed
\* is "Error during analysis": once, or not at all when a user interrupt
\* arrived in the print of that message.
C1_ApiErrorAbortsRunOneMessage ==
    (raised = "Exception" /\ raised_in \in ApiCalls) =>
        /\ pc = "exited"
        /\ files = <<>>
        /\ report = NoReport
        /\ \A i \in ErrorLines(printed) : printed[i] = ErrorDuringAnalysis
        /\ Cardinality(ErrorLines(printed)) =
              IF "error_print" \in Range(interrupted) THEN 0 ELSE 1

\* branch listing of the last of three repositories fails after two analyses
\* and the message is printed
C1_Witness ==
    /\ pc = "exited"
    /\ raised = "Exception"
    /\ raised_in = "get_branches"
    /\ Len(repos) = 3
    /\ Len(analyses) = 2
    /\ interrupted = <<>>
    /\ printed[Len(printed)] = ErrorDuringAnalysis

\* C2: a process that ended on a configuration error or on an exception of
\* fetch, analysis, rendering or file write printed an error line and exits
\* with a nonzero status; exit status zero only after the report was written.
C2_FailureExitsNonzero ==
    pc = "exited" =>
        /\ raised = "Exception" =>
              /\ exit_status # 0
              /\ ErrorLines(printed) # {}
        /\ exit_status = 0 => files = <<File(report, TRUE)>>

\* C3: at process exit a client that was constructed has been closed.
C3_ClientClosedAtExit ==
    pc = "exited" /\ github # "absent" => github = "closed"

FailedRepos == { f.repo : f \in failed }

\* C4: a failing contributor listing gives contributors_count = 0 for that
\* repository and changes nothing else: every analysis is the one a
\* successful listing gives, but for the count of the failed ones; the
\* failure never ends the run, which goes on to write its report.
C4_ContributorFailureIsLocal ==
    /\ \A i \in 1..Len(analyses) :
          /\ analyses[i].contributors_count =
                IF i \in FailedRepos THEN 0 ELSE repos[i].contributors
          /\ [analyses[i] EXCEPT !.contributors_count = 0] =
                [analyze_repository(repos[i], TRUE) EXCEPT
                    !.contributors_count = 0]
    /\ ~(raised = "Exception" /\ raised_in = "get_contributors")
    /\ (pc = "exited" /\ raised = "none") =>
          /\ Len(analyses) = Len(repos)
          /\ files = <<File(generate_markdown_report(org_name, analyses,
                                 calculate_org_stats(analyses)), TRUE)>>

\* two of three listings failed, one of a repository that has contributors,
\* and the report is written
C4_Witness ==
    /\ pc = "exited"
    /\ raised = "none"
    /\ Len(repos) = 3
    /\ Cardinality(FailedRepos) = 2
    /\ \E i \in FailedRepos : repos[i].contributors > 0
    /\ \E i \in 1..3 : i \notin FailedRepos /\ analyses[i].contributors_count > 0
    /\ Len(files) = 1
    /\ files[1].complete

InterruptLine == <<"warning", "Analysis interrupted by user">>

\* the interrupts that arrive in a handler of main, lines 389-393
InMainHandler == {"main_print", "sys_exit"}

\* C5, as claimed: a user interrupt arriving at any point is handled by
\* main only: it is never recovered as a zero contributor count, never
\* logged as "Error during analysis"; the process prints the interrupt
\* message and exits with a nonzero status.
C5_InterruptReachesMain ==
    /\ \A f \in failed : f.exc # "KeyboardInterrupt"
    /\ raised = "KeyboardInterrupt" => ErrorLines(printed) = {}
    /\ interrupted # <<>> =>
          /\ pc = "exited"
          /\ exit_status # 0
          /\ InterruptLine \in Range(printed)

\* C5, amended: a user interrupt is never recovered as a zero contributor
\* count and never logged as an error, and it ends the process with a
\* nonzero status.  When it arrives in the try body of main (anywhere from
\* the banner to the close() of run_analysis) main catches it: the process
\* prints the interrupt message, once and as its last line, and exits with
\* status 1.  Only an interrupt arriving while a handler of main runs is
\* caught by nobody.
C5_InterruptInTryReachesMain ==
    /\ \A f \in failed : f.exc # "KeyboardInterrupt"
    /\ raised = "KeyboardInterrupt" => ErrorLines(printed) = {}
    /\ interrupted # <<>> =>
          /\ pc = "exited"
          /\ exit_status # 0
    /\ (interrupted # <<>> /\ Range(interrupted) \cap InMainHandler = {}) =>
          /\ exit_status = 1
          /\ printed[Len(printed)] = InterruptLine
          /\ Cardinality({ i \in 1..Len(printed) :
                             printed[i] = InterruptLine }) = 1
    /\ exit_status = UnhandledInterrupt =>
          /\ interrupted # <<>>
          /\ interrupted[Len(interrupted)] \in InMainHandler

\* the interrupt arrives in the contributor listing of the second of three
\* repositories, and main prints its message
C5_Witness ==
    /\ pc = "exited"
    /\ raised = "KeyboardInterrupt"
    /\ raised_in = "get_contributors"
    /\ interrupted = <<"get_contributors">>
    /\ Len(repos) = 3
    /\ Len(analyses) = 1
    /\ exit_status = 1
    /\ printed[Len(printed)] = InterruptLine

RECURSIVE NumArchived(_)
NumArchived(as) ==
    IF as = <<>> THEN 0
    ELSE (IF Head(as).archived THEN 1 ELSE 0) + NumArchived(Tail(as))

\* C6: total_repos is the number of analyses, archived_repos the number of
\* archived ones, and active_repos + archived_repos = total_repos.
C6_RepoCounts ==
    stats # NoStats =>
        /\ stats.total_repos = Len(analyses)
        /\ stats.archived_repos = NumArchived(analyses)
        /\ stats.active_repos + stats.archived_repos = stats.total_repos

C6_Witness ==
    /\ stats # NoStats
    /\ stats.total_repos = 3
    /\ stats.archived_repos = 2
    /\ stats.active_repos = 1

Perms(n) ==
    { p \in [1..n -> 1..n] : \A i, j \in 1..n : p[i] = p[j] => i = j }

Permuted(as, p) == [i \in 1..Len(as) |-> as[p[i]]]

SameTable(c, d) ==
    /\ Keys(c) = Keys(d)
    /\ \A k \in Keys(c) : Get(c, k) = Get(d, k)

SameStats(s, t) ==
    /\ s.total_repos = t.total_repos
    /\ s.active_repos = t.active_repos
    /\ s.archived_repos = t.archived_repos
    /\ s.total_size_kb = t.total_size_kb
    /\ s.contributors = t.contributors
    /\ s.forks = t.forks
    /\ s.stars = t.stars
    /\ SameTable(s.languages, t.languages)
    /\ SameTable(s.topics, t.topics)
    /\ SameTable(s.licenses, t.licenses)

\* C7: calculate_org_stats gives the same counts, sums and frequency tables
\* (as key -> count mappings) for every permutation of the analyses.
C7_OrderIndependent ==
    pc = "render" =>
        \A p \in Perms(Len(analyses)) :
            SameStats(stats, calculate_org_stats(Permuted(analyses, p)))

\* three analyses with different stars, a language counted twice and tables
\* whose insertion order depends on the list order
C7_Witness ==
    /\ pc = "render"
    /\ Len(analyses) = 3
    /\ analyses[1].stars # analyses[3].stars
    /\ \E k \in Keys(stats.languages) : Get(stats.languages, k) = 2
    /\ Len(stats.topics) >= 2
    /\ \E p \in Perms(3) :
          calculate_org_stats(Permuted(analyses, p)).topics # stats.topics

\* C8: an organization without repositories gives all-zero counts and empty
\* tables and its report is rendered; the renderer never raises a division
\* by zero: it divides by total_repos only when total_repos > 0.
C8_NoDivisionByZero ==
    /\ raised_in # "ZeroDivisionError"
    /\ (stats # NoStats /\ analyses = <<>>) =>
          /\ stats.total_repos = 0
          /\ stats.active_repos = 0
          /\ stats.archived_repos = 0
          /\ stats.languages = <<>>
          /\ stats.topics = <<>>
          /\ stats.licenses = <<>>
    /\ pc \in {"write", "summary"} => report # NoReport
    /\ (report # NoReport /\ report.languages # <<>>) => stats.total_repos > 0

\* the report of an empty organization is rendered
C8_Witness ==
    /\ pc = "write"
    /\ repos = <<>>
    /\ stats.total_repos = 0
    /\ report # NoReport
    /\ report.languages = <<>>

Having(as, field, v) == { i \in 1..Len(as) : as[i][field] = v }

WithValue(as, field) == { i \in 1..Len(as) : Truthy(as[i][field]) }

TableCounts(c, as, field) ==
    /\ None \notin Keys(c)
    /\ "" \notin Keys(c)
    /\ \A i \in 1..Len(c) : \A j \in 1..Len(c) : c[i].key = c[j].key => i = j
    /\ \A i \in WithValue(as, field) : as[i][field] \in Keys(c)
    /\ \A k \in Keys(c) : Get(c, k) = Cardinality(Having(as, field, k))
    /\ Total(c) = Cardinality(WithValue(as, field))

\* C9: an analysis without license (language) counts under no key of the
\* licenses (languages) table, each one with a value counts 1 under its key,
\* so the counts sum to the number of analyses with a value; when every
\* analysis has a language the language counts sum to total_repos.
C9_TablesCountValues ==
    stats # NoStats =>
        /\ TableCounts(stats.licenses, analyses, "license")
        /\ TableCounts(stats.languages, analyses, "language")
        /\ WithValue(analyses, "language") = 1..Len(analyses) =>
              Total(stats.languages) = stats.total_repos

\* every analysis has a language; one has no license, one an empty license
\* name and one a license
C9_Witness ==
    /\ stats # NoStats
    /\ Len(analyses) = 3
    /\ WithValue(analyses, "language") = 1..3
    /\ Total(stats.languages) = 3
    /\ \E i, j, k \in 1..3 :
          /\ analyses[i].license = None
          /\ analyses[j].license = ""
          /\ Truthy(analyses[k].license)
    /\ Total(stats.licenses) = 1

Subsections(section, name) == { k \in 1..Len(section) : section[k].name = name }

UpdatedAt(name) ==
    (CHOOSE a \in { analyses[i] : i \in 1..Len(analyses) } : a.name = name).updated_at

\* C10: every repository has exactly one subsection, under Active
\* Repositories when not archived and under Archived Repositories when
\* archived; active ones are in ascending name order, archived ones in
\* descending updated_at order; the Archived Repositories section is there
\* exactly when archived_repos > 0.
C10_RepositorySections ==
    report # NoReport =>
        /\ \A i \in 1..Len(analyses) :
              LET a == analyses[i]
              IN  /\ Cardinality(Subsections(report.active, a.name)) =
                        IF a.archived THEN 0 ELSE 1
                  /\ Cardinality(Subsections(report.archived, a.name)) =
                        IF a.archived THEN 1 ELSE 0
        /\ Len(report.active) + Len(report.archived) = Len(analyses)
        /\ \A k \in 1..(Len(report.active) - 1) :
              StrLess(report.active[k].name, report.active[k + 1].name)
        /\ \A k \in 1..(Len(report.archived) - 1) :
              ~DateTimeLess(UpdatedAt(report.archived[k].name),
                            UpdatedAt(report.archived[k + 1].name))
        /\ report.has_archived <=> stats.archived_repos > 0
        /\ ~report.has_archived => report.archived = <<>>

\* two archived repositories updated on the same day, listed oldest first,
\* and one active repository
C10_Witness ==
    /\ report # NoReport
    /\ Len(report.active) = 1
    /\ Len(report.archived) = 2
    /\ \E i, j \in 1..Len(analyses) :
          /\ i < j
          /\ analyses[i].archived /\ analyses[j].archived
          /\ analyses[i].updated_at.date = analyses[j].updated_at.date
          /\ DateTimeLess(analyses[i].updated_at, analyses[j].updated_at)
          /\ report.archived[1].name = analyses[j].name

====
